---- MODULE Spec2Model ----
(***************************************************************************)
(* A model of pyGAM's LogisticGAM (src/pygam.py): feature typing, knot     *)
(* generation, the De Boor B-spline basis, the block-diagonal penalty, the *)
(* two PIRLS loops, and the prediction-time operations.                    *)
(*                                                                         *)
(* Numbers.  Reals are exact rationals <<num, den>> (den > 0, lowest       *)
(* terms).  Raw data values are held doubled (v2 = 2 * value) so that the  *)
(* half-integer category boundaries of gen_knots stay integral.  lam is    *)
(* held in tenths.  The linear-algebra solve of one PIRLS iteration is an  *)
(* input of the iteration: the coefficient vector it returns is drawn from *)
(* a small set of constant vectors v * ones(m).                            *)
(***************************************************************************)
EXTENDS Integers, Sequences, FiniteSets

VARIABLES
    \* configuration set by __init__ / set_params
    n_iter, lam, n_knots, spline_order, penalty_matrix, opt_,
    \* attributes created by fit
    b_, n_bases_, knots_, lam_, n_knots_, spline_order_, penalty_matrix_,
    dtypes_, edof_, se_, aic_, aicc_, cov_, scale_, acc, nll, diffs,
    \* the fit call in progress: position, its X, loop counter, what it
    \* printed, how the last call ended; clock stamps the PIRLS iterations
    pc, X, it, stdout, outcome, clock, nfits,
    \* prediction calls in flight (one record per thread)
    th,
    \* input and output of the numeric kernels checked on their own
    kin, kout

cfgvars  == <<n_iter, lam, n_knots, spline_order, penalty_matrix, opt_>>
fitvars  == <<b_, n_bases_, knots_, lam_, n_knots_, spline_order_,
              penalty_matrix_, dtypes_, edof_, se_, aic_, aicc_, cov_, scale_,
              acc, nll, diffs>>
ctlvars  == <<pc, X, it, stdout, outcome, clock, nfits>>
kervars  == <<kin, kout>>
vars     == <<cfgvars, fitvars, ctlvars, th, kervars>>

\* an attribute that holds Python's None (attributes are records, so that
\* None compares with every value an attribute takes)
None == [none |-> TRUE]
\* None as a penalty_matrix entry, next to 'auto' and the callables
PNone == "None"

----------------------------------------------------------------------------
(* Exact rational arithmetic.                                              *)

Abs(n) == IF n < 0 THEN -n ELSE n

RECURSIVE Gcd(_, _)
Gcd(a, b) == IF b = 0 THEN a ELSE Gcd(b, a % b)

Frac(n, d) ==
    LET s == IF d < 0 THEN -1 ELSE 1
        g == Gcd(Abs(n), Abs(d))
    IN  <<(s * n) \div g, (s * d) \div g>>

FInt(n)    == <<n, 1>>
FAdd(a, b) == Frac(a[1] * b[2] + b[1] * a[2], a[2] * b[2])
FSub(a, b) == Frac(a[1] * b[2] - b[1] * a[2], a[2] * b[2])
FMul(a, b) == Frac(a[1] * b[1], a[2] * b[2])
FDiv(a, b) == Frac(a[1] * b[2], a[2] * b[1])
FLt(a, b)  == a[1] * b[2] < b[1] * a[2]
FLe(a, b)  == a[1] * b[2] <= b[1] * a[2]

RECURSIVE FSum(_)
FSum(s) == IF s = <<>> THEN FInt(0) ELSE FAdd(Head(s), FSum(Tail(s)))

RECURSIVE Sum(_)
Sum(s) == IF s = <<>> THEN 0 ELSE Head(s) + Sum(Tail(s))

Rep(v, n) == [i \in 1..n |-> v]

SetMin(S) == CHOOSE v \in S : \A w \in S : v <= w
SetMax(S) == CHOOSE v \in S : \A w \in S : w <= v

RECURSIVE SortedSeq(_)
SortedSeq(S) == IF S = {} THEN <<>>
                ELSE <<SetMin(S)>> \o SortedSeq(S \ {SetMin(S)})

Range(s) == {s[i] : i \in DOMAIN s}

----------------------------------------------------------------------------
(* b_spline_basis: one row of the basis matrix, for one observation x.     *)
(* boundary_knots is a sequence of rationals, already sorted (np.sort).    *)

aug_knots(boundary_knots, order) ==
    Rep(boundary_knots[1], order - 1) \o boundary_knots
        \o Rep(boundary_knots[Len(boundary_knots)], order - 1)

\* the indicator ("haar") bases, before the boundary overrides
haar(x, aug) ==
    [j \in 1..(Len(aug) - 1) |->
        IF FLe(aug[j], x) /\ FLt(x, aug[j + 1]) THEN FInt(1) ELSE FInt(0)]

\* bases[(x >= aug_knots[-1]), -order] = 1
extend_right(bases, x, aug, order) ==
    IF FLe(aug[Len(aug)], x)
    THEN [bases EXCEPT ![Len(bases) - order + 1] = FInt(1)]
    ELSE bases

\* bases[(x < aug_knots[0]), order] = 1 writes column index order (0-based)
extend_left_col(order) == order + 1

\* one level m of the recursion, from maxi + 1 columns to maxi columns
de_boor_step(bases, x, aug, m, maxi) ==
    [i \in 1..maxi |->
        LET left  == IF aug[i + m - 1] = aug[i] THEN FInt(0)
                     ELSE FMul(FDiv(FSub(x, aug[i]),
                                    FSub(aug[i + m - 1], aug[i])), bases[i])
            right == IF aug[i + m] = aug[i + 1] THEN FInt(0)
                     ELSE FMul(FDiv(FSub(aug[i + m], x),
                                    FSub(aug[i + m], aug[i + 1])), bases[i + 1])
        IN  FAdd(left, right)]

RECURSIVE de_boor(_, _, _, _, _)
de_boor(bases, x, aug, m, order) ==
    IF m > order THEN bases
    ELSE de_boor(de_boor_step(bases, x, aug, m, Len(bases) - 1),
                 x, aug, m + 1, order)

\* [err |-> TRUE] stands for the IndexError of the left override when the
\* haar matrix has no column of that index and some x lies below the knots
b_spline_basis(x, boundary_knots, order) ==
    LET aug == aug_knots(boundary_knots, order)
        h0  == haar(x, aug)
        h1  == extend_right(h0, x, aug, order)
        c   == extend_left_col(order)
    IN  IF FLt(x, aug[1])
        THEN IF c > Len(h1) THEN [err |-> TRUE, row |-> <<>>]
             ELSE [err |-> FALSE,
                   row |-> de_boor([h1 EXCEPT ![c] = FInt(1)], x, aug, 2, order)]
        ELSE [err |-> FALSE, row |-> de_boor(h1, x, aug, 2, order)]

\* number of basis columns: maxi after the order - 1 decrements
basis_cols(boundary_knots, order) ==
    Len(aug_knots(boundary_knots, order)) - 1 - (order - 1)

----------------------------------------------------------------------------
(* Feature typing and knots.  A column of X is [dtype, v2]: its numpy      *)
(* dtype ("int", "float" or "other") and its values, doubled, in row order.*)

NUnique(col) == Cardinality(Range(col.v2))

\* len(np.unique(feat + jitter)): the jitter is a continuous random draw,
\* so the jittered values are pairwise distinct
NUniqueJittered(col) == Len(col.v2)

IsCategorical(col) ==
    col.dtype = "int" \/ NUnique(col) # NUniqueJittered(col)

\* the assertion of line 24, on doubled values
CategoricalRangeOk(col) ==
    SetMax(Range(col.v2)) - SetMin(Range(col.v2)) = 2 * (NUnique(col) - 1)

RECURSIVE check_dtype_(_)
check_dtype_(Xm) ==
    IF Xm = <<>> THEN [err |-> "", dtypes |-> <<>>]
    ELSE LET feat == Head(Xm)
             rest == check_dtype_(Tail(Xm))
         IN  IF feat.dtype \notin {"int", "float"}
             THEN [err |-> "data must be discrete or continuous valued",
                   dtypes |-> <<>>]
             ELSE IF IsCategorical(feat) /\ ~CategoricalRangeOk(feat)
             THEN [err |-> "k categories must be mapped to integers in [0, k-1] interval",
                   dtypes |-> <<>>]
             ELSE IF rest.err # "" THEN rest
             ELSE [err |-> "",
                   dtypes |-> <<IF IsCategorical(feat) THEN "int" ELSE "float">>
                                 \o rest.dtypes]

\* np.percentile(data, q) at q = 100 * j / (n + 1), linear interpolation
percentile(sorted, j, n) ==
    LET N   == Len(sorted)
        num == j * (N - 1)
        lo  == num \div (n + 1)
        r   == num % (n + 1)
    IN  IF r = 0 THEN Frac(sorted[lo + 1], 2)
        ELSE FAdd(Frac(sorted[lo + 1], 2),
                  FMul(Frac(r, n + 1),
                       Frac(sorted[lo + 2] - sorted[lo + 1], 2)))

RECURSIVE np_sort(_)
np_sort(s) ==
    IF s = <<>> THEN <<>>
    ELSE LET m == SetMin(Range(s))
             k == CHOOSE i \in DOMAIN s : s[i] = m
         IN  <<m>> \o np_sort([i \in 1..(Len(s) - 1) |->
                                  IF i < k THEN s[i] ELSE s[i + 1]])

\* gen_knots(data, dtype, n_knots, add_boundaries=True)
gen_knots(col, dtype, n) ==
    IF dtype = "int"
    THEN LET u == SortedSeq(Range(col.v2))
         IN  <<Frac(u[1] - 1, 2)>> \o [i \in 1..Len(u) |-> Frac(u[i] + 1, 2)]
    ELSE LET s == np_sort(col.v2)
         IN  [j \in 1..(n + 2) |-> percentile(s, j - 1, n)]

----------------------------------------------------------------------------
(* Per-feature expansion of a configuration value.  A value is             *)
(* [list |-> BOOLEAN, v |-> the list, or the scalar as a one-element       *)
(* sequence].                                                              *)

Scalar(v) == [list |-> FALSE, v |-> <<v>>]
List(v)   == [list |-> TRUE, v |-> v]

expand_attr_(data, n, has_alt, dt_alt, dtypes) ==
    IF data.list
    THEN IF Len(data.v) = n THEN [err |-> FALSE, val |-> data.v]
         ELSE [err |-> TRUE, val |-> <<>>]
    ELSE [err |-> FALSE,
          val |-> [i \in 1..n |->
                     IF has_alt /\ dtypes[i] = "int" THEN dt_alt ELSE data.v[1]]]

----------------------------------------------------------------------------
(* Penalty matrices: a matrix is a sequence of rows.                       *)

Eye(n) == [r \in 1..n |-> [c \in 1..n |-> IF r = c THEN 1 ELSE 0]]

\* np.diff(np.eye(n), n=1): differences along the last axis, n x (n-1)
DiffEye(n) ==
    LET E == Eye(n)
    IN  [r \in 1..n |-> [c \in 1..(n - 1) |-> E[r][c + 1] - E[r][c]]]

cont_P_(n) ==
    IF n = 1 THEN <<<<0>>>>
    ELSE LET D == DiffEye(n)
         IN  [r \in 1..n |-> [c \in 1..n |->
                 Sum([j \in 1..(n - 1) |-> D[r][j] * D[c][j]])]]

cat_P_(n) == Eye(n)

\* a user-supplied proto-penalty function (here: twice the identity)
custom_P_(n) == [r \in 1..n |-> [c \in 1..n |-> IF r = c THEN 2 ELSE 0]]

Min2(a, b) == IF a < b THEN a ELSE b

\* Ps of line 309
proto_penalty(n, pmat) ==
    IF pmat \notin {"auto", PNone}
    THEN IF pmat = "cat_P_" THEN cat_P_(n) ELSE custom_P_(n)
    ELSE cont_P_(n)

\* the list of scaled blocks handed to block_diag (zip stops at the
\* shortest list)
penalty_blocks(nb, pmats, lams) ==
    [k \in 1..Min2(Min2(Len(nb), Len(pmats)), Len(lams)) |->
        LET P == proto_penalty(nb[k], pmats[k])
        IN  [r \in 1..Len(P) |-> [c \in 1..Len(P) |-> P[r][c] * lams[k]]]]

\* sp.sparse.block_diag: block k sits at offset sum of the sizes before it
block_diag(blocks) ==
    LET sizes == [k \in 1..Len(blocks) |-> Len(blocks[k])]
        off   == [k \in 1..Len(blocks) |-> Sum(SubSeq(sizes, 1, k - 1))]
        m     == Sum(sizes)
        blk   == [r \in 1..m |->
                    CHOOSE k \in 1..Len(blocks) :
                        off[k] < r /\ r <= off[k] + sizes[k]]
    IN  [r \in 1..m |-> [c \in 1..m |->
            IF blk[r] = blk[c]
            THEN blocks[blk[r]][r - off[blk[r]]][c - off[blk[r]]]
            ELSE 0]]

P_(nb, pmats, lams) == block_diag(penalty_blocks(nb, pmats, lams))

----------------------------------------------------------------------------
(* select_feature_(i): the indices owned by feature i, as np.arange        *)
(* produces them, or the assertion error.                                  *)

arange(a, b) == [k \in 1..(b - a) |-> a + k - 1]

select_start_inclusive(nb, i) == Sum(SubSeq(nb, 1, i + 1))

select_start(nb, i) == Sum(SubSeq(nb, 1, i))

select_feature_(nb, i) ==
    IF ~(i < Len(nb)) \/ ~(i >= -1) THEN [err |-> TRUE, idx |-> <<>>]
    ELSE IF i = -1 THEN [err |-> FALSE, idx |-> arange(0, Sum(nb))]
    ELSE LET a == select_start(nb, i)
             b == nb[i + 1]
         IN  [err |-> FALSE, idx |-> arange(a, a + b)]

----------------------------------------------------------------------------
(* The numeric kernels of one PIRLS pass.                                  *)

\* mask_(proba): the rows whose probability is neither 0 nor 1
mask_(proba) ==
    LET mask == [i \in DOMAIN proba |-> proba[i] # FInt(0) /\ proba[i] # FInt(1)]
    IN  IF \A i \in DOMAIN mask : ~mask[i]
        THEN [err |-> "increase regularization", mask |-> mask]
        ELSE [err |-> "", mask |-> mask]

\* proba[mask]
RECURSIVE take(_, _)
take(seq, mask) ==
    IF seq = <<>> THEN <<>>
    ELSE (IF Head(mask) THEN <<Head(seq)>> ELSE <<>>) \o take(Tail(seq), Tail(mask))

ISqrt(n) == CHOOSE r \in 0..n : r * r = n

\* proba ** 0.5, exact on the squares of rationals
sqrt_frac(q) == <<ISqrt(q[1]), ISqrt(q[2])>>

\* weights_(proba): the diagonal of the weight matrix
weights_(proba) ==
    [i \in DOMAIN proba |->
        LET sqrt_proba == sqrt_frac(proba[i])
        IN  FMul(sqrt_proba, FSub(FInt(1), sqrt_proba))]

\* sqrt(EPS) = 2^-26, held as its inverse
SqrtEpsInv == 67108864

\* svd_mask = d <= (d.max() * np.sqrt(EPS)), for integer singular values
svd_mask(d) ==
    [i \in DOMAIN d |-> d[i] <= SetMax(Range(d)) \div SqrtEpsInv]

\* np.fill_diagonal(Dinv, d**-1): the diagonal that enters B
Dinv_diagonal(d) == [i \in DOMAIN d |-> Frac(1, d[i])]

----------------------------------------------------------------------------
(* Bounds of the model and the inputs drawn within them.                   *)

MaxFits  == 2      \* fit calls on one instance
MaxIter  == 2      \* largest n_iter configured
MaxCoef  == 2      \* the solve returns v * ones(m), v in 1..MaxCoef or BigCoef
BigCoef  == 40     \* a coefficient large enough to saturate the sigmoid
NThreads == 2      \* prediction calls that may be in flight
MaxKnot  == 3      \* boundary knots are drawn from 0..MaxKnot
MaxOrder == 3      \* spline orders 1..MaxOrder
MaxRoot  == 3      \* probabilities (a/b)^2 with b <= MaxRoot
MaxRows  == 3      \* observations handed to a kernel
MaxSing  == 2      \* singular values: 1..MaxSing, and those times 2^26

\* 1/(1 + exp(-t)) rounds to exactly 1.0 in float64 once t reaches 37
SatLogOdds == 37

\* tol = 1e-5
tol == <<1, 100000>>

colCont == [dtype |-> "float", v2 |-> <<1, 3, 6>>]   \* 0.5, 1.5, 3.0
colCat2 == [dtype |-> "int",   v2 |-> <<0, 2, 0>>]   \* 0, 1, 0
colCat3 == [dtype |-> "int",   v2 |-> <<0, 2, 4>>]   \* 0, 1, 2
colGap  == [dtype |-> "int",   v2 |-> <<0, 4, 0>>]   \* 0, 2, 0

XChoices == {<<colCont>>, <<colCat2>>, <<colCont, colCat3>>, <<colGap>>}

LamChoices     == {Scalar(6), List(<<20>>), List(<<6, 20>>)}
PenaltyChoices == {Scalar("auto"), Scalar(PNone), List(<<"auto", "custom">>),
                   List(<<"auto", "auto">>)}
OrderChoices   == {Scalar(2), List(<<2, 1>>)}
KnotChoices    == {Scalar(1)}
CoefValues     == (1..MaxCoef) \cup {BigCoef}

----------------------------------------------------------------------------
(* fit, up to the start of the PIRLS loop.  The attributes are threaded    *)
(* through the statements as a record; a failed assertion stops the call   *)
(* and leaves what was assigned before it.                                 *)

Attrs == [dtypes_ |-> dtypes_, lam_ |-> lam_, spline_order_ |-> spline_order_,
          penalty_matrix_ |-> penalty_matrix_, n_knots_ |-> n_knots_,
          knots_ |-> knots_, n_bases_ |-> n_bases_, b_ |-> b_, err |-> ""]

\* self.dtypes_ = check_dtype_(X)
fit_dtypes(a, Xm) ==
    LET d == check_dtype_(Xm)
    IN  IF d.err # "" THEN [a EXCEPT !.err = d.err]
        ELSE [a EXCEPT !.dtypes_ = d.dtypes]

add_intercept_lam_missing(lams) == lams

\* self.lam_ = [0.] + self.lam_
add_intercept_lam(lams) == <<0>> \o lams

fit_lam(a, Xm) ==
    IF a.err # "" THEN a
    ELSE LET e == expand_attr_(lam, Len(Xm), FALSE, 0, a.dtypes_)
         IN  IF e.err
             THEN [a EXCEPT !.err = "lam must have the same length as X.shape[1]"]
             ELSE [a EXCEPT !.lam_ = add_intercept_lam(e.val)]

fit_spline_order(a, Xm) ==
    IF a.err # "" THEN a
    ELSE LET e == expand_attr_(spline_order, Len(Xm), TRUE, 1, a.dtypes_)
         IN  IF e.err
             THEN [a EXCEPT !.err = "spline_order must have the same length as X.shape[1]"]
             ELSE IF \E i \in DOMAIN e.val : e.val[i] < 1
             THEN [a EXCEPT !.spline_order_ = e.val,
                            !.err = "spline_order must be int >= 1"]
             ELSE [a EXCEPT !.spline_order_ = e.val]

\* self.penalty_matrix_ = ['auto'] + [p if p != None else 'auto' ...]
add_intercept_penalty(pmats) ==
    <<"auto">> \o [i \in DOMAIN pmats |-> IF pmats[i] # PNone THEN pmats[i] ELSE "auto"]

fit_penalty_matrix(a, Xm) ==
    IF a.err # "" THEN a
    ELSE LET e == expand_attr_(penalty_matrix, Len(Xm), TRUE, "cat_P_", a.dtypes_)
         IN  IF e.err
             THEN [a EXCEPT !.err = "penalty_matrix must have the same length as X.shape[1]"]
             ELSE [a EXCEPT !.penalty_matrix_ = add_intercept_penalty(e.val)]

gen_knots_(a, Xm) ==
    IF a.err # "" THEN a
    ELSE LET e == expand_attr_(n_knots, Len(Xm), TRUE, 0, a.dtypes_)
         IN  IF e.err
             THEN [a EXCEPT !.err = "n_knots must have the same length as X.shape[1]"]
             ELSE IF \E i \in DOMAIN e.val : e.val[i] < 0
             THEN [a EXCEPT !.n_knots_ = e.val, !.err = "n_knots must be int >= 0"]
             ELSE LET ks == [i \in 1..Len(Xm) |-> gen_knots(Xm[i], a.dtypes_[i], e.val[i])]
                  IN  [a EXCEPT !.knots_ = ks,
                                !.n_knots_ = [i \in DOMAIN ks |-> Len(ks[i]) - 2]]

\* bases_(X, feature=-1): the n_bases_ it leaves (reset, then one append
\* per column; zip stops at the shortest of X.T, knots_, spline_order_)
bases_reset == <<1>>

bases_counts(ncols, knots, orders) ==
    bases_reset \o
    [j \in 1..Min2(ncols, Min2(Len(knots), Len(orders))) |->
        basis_cols(knots[j], orders[j])]

\* the head of pirls_ / pirls_naive_: bases_(X), and b_ zeroed when unset
zeros(m) == [m |-> m, v |-> 0, k |-> 0]

pirls_head(a, Xm) ==
    IF a.err # "" \/ opt_ \notin {0, 1} THEN a
    ELSE LET nb == bases_counts(Len(Xm), a.knots_, a.spline_order_)
         IN  [a EXCEPT !.n_bases_ = nb,
                       !.b_ = IF a.b_ = None THEN zeros(Sum(nb)) ELSE a.b_]

fit_setup(Xm) ==
    pirls_head(gen_knots_(fit_penalty_matrix(fit_spline_order(
        fit_lam(fit_dtypes(Attrs, Xm), Xm), Xm), Xm), Xm), Xm)

IdleThread == [pc |-> "idle", op |-> "", feature |-> -1, j |-> 0,
               width |-> 0, res |-> "", stale |-> FALSE]

NoCallInFlight == \A t \in 1..NThreads : th[t].pc = "idle"

Fit(Xm) ==
    /\ pc = "idle" /\ nfits < MaxFits /\ NoCallInFlight
    /\ LET a == fit_setup(Xm)
       IN  /\ dtypes_' = a.dtypes_ /\ lam_' = a.lam_
           /\ spline_order_' = a.spline_order_
           /\ penalty_matrix_' = a.penalty_matrix_
           /\ n_knots_' = a.n_knots_ /\ knots_' = a.knots_
           /\ n_bases_' = a.n_bases_ /\ b_' = a.b_
           /\ pc' = IF a.err = "" /\ opt_ \in {0, 1} THEN "loop" ELSE "idle"
           /\ outcome' = IF a.err # "" THEN "rejected"
                         ELSE IF opt_ \in {0, 1} THEN "running" ELSE "returned"
    /\ X' = Xm /\ it' = 0 /\ nfits' = nfits + 1
    /\ UNCHANGED <<cfgvars, edof_, se_, aic_, aicc_, cov_, scale_, acc, nll,
                   diffs, stdout, clock, th, kervars>>

----------------------------------------------------------------------------
(* One pass of the PIRLS loop.                                             *)

\* bases.dot(b_) needs one coefficient per basis column
dot_ok(nb, b) == b # None /\ b.m = Sum(nb)

\* every row of the training bases holds 1 (intercept) and one partition
\* of unity per feature, so with b_ = v * ones every log-odds is
\* (1 + p) * v; mask_ fails when every probability is exactly 0 or 1
all_masked(nb, b) == Len(nb) * b.v >= SatLogOdds

\* diff = norm(b_ - b_new) / norm(b_new), for constant vectors
rel_change(b, v_new) == Frac(Abs(b.v - v_new), Abs(v_new))

converged(diff) == FLt(diff, tol)

log_overwrite(log, entry) == <<entry>>

\* what the loop body appends to the three logs
log_append(log, entry) == Append(log, entry)

\* the statistics pirls_ stores on convergence (lines 373-376)
stable_stats(m, k) ==
    [scale_ |-> [val |-> 1, k |-> k], edof_ |-> [k |-> k],
     cov_   |-> [dim |-> m, k |-> k], se_   |-> [dim |-> m, k |-> k],
     aic_   |-> aic_, aicc_ |-> aicc_]

\* the statistics pirls_naive_ stores on convergence (lines 418-420)
naive_stats(m, k) ==
    [scale_ |-> scale_, edof_ |-> [k |-> k], cov_ |-> cov_, se_ |-> se_,
     aic_   |-> [k |-> k], aicc_ |-> [k |-> k]]

KeepStats == UNCHANGED <<scale_, edof_, cov_, se_, aic_, aicc_>>

LoopRaise ==
    /\ pc' = "idle" /\ outcome' = "raised"
    /\ UNCHANGED <<b_, acc, nll, diffs, it, clock>>
    /\ KeepStats

LoopBody(v, stats) ==
    LET m    == Sum(n_bases_)
        k    == clock + 1
        diff == rel_change(b_, v)
    IN  /\ clock' = k
        /\ acc'   = log_append(acc, k)
        /\ nll'   = log_append(nll, k)
        /\ diffs' = log_append(diffs, [k |-> k, small |-> converged(diff)])
        /\ b_'    = [m |-> m, v |-> v, k |-> k]
        /\ IF converged(diff)
           THEN /\ scale_' = stats.scale_ /\ edof_' = stats.edof_
                /\ cov_' = stats.cov_ /\ se_' = stats.se_
                /\ aic_' = stats.aic_ /\ aicc_' = stats.aicc_
                /\ pc' = "idle" /\ outcome' = "converged"
                /\ it' = it + 1
           ELSE /\ KeepStats
                /\ pc' = "loop" /\ outcome' = outcome
                /\ it' = it + 1

loop_exhausted_early(i, n) == i + 1 >= n

\* for _ in range(self.n_iter): no pass is left after n passes
loop_exhausted(i, n) == i >= n

\* pirls_, lines 341-379
Iterate ==
    /\ pc = "loop" /\ opt_ = 0 /\ ~loop_exhausted(it, n_iter)
    /\ IF ~dot_ok(n_bases_, b_) \/ all_masked(n_bases_, b_)
       THEN LoopRaise
       ELSE \E v \in CoefValues : LoopBody(v, stable_stats(Sum(n_bases_), clock + 1))
    /\ UNCHANGED <<cfgvars, n_bases_, knots_, lam_, n_knots_, spline_order_,
                   penalty_matrix_, dtypes_, X, stdout, nfits, th, kervars>>

\* pirls_naive_, lines 394-421
IterateNaive ==
    /\ pc = "loop" /\ opt_ = 1 /\ ~loop_exhausted(it, n_iter)
    /\ IF ~dot_ok(n_bases_, b_) \/ all_masked(n_bases_, b_)
       THEN LoopRaise
       ELSE \E v \in CoefValues : LoopBody(v, naive_stats(Sum(n_bases_), clock + 1))
    /\ UNCHANGED <<cfgvars, n_bases_, knots_, lam_, n_knots_, spline_order_,
                   penalty_matrix_, dtypes_, X, stdout, nfits, th, kervars>>

\* the for loop is exhausted: print 'did not converge' and return
LoopEnd ==
    /\ pc = "loop" /\ loop_exhausted(it, n_iter)
    /\ stdout' = Append(stdout, "did not converge")
    /\ pc' = "idle" /\ outcome' = "maxiter"
    /\ UNCHANGED <<cfgvars, fitvars, X, it, clock, nfits, th, kervars>>

----------------------------------------------------------------------------
(* Configuration between calls.                                            *)

\* set_params(lam=...)
SetLam(v) ==
    /\ pc = "idle" /\ NoCallInFlight /\ nfits < MaxFits /\ lam # v
    /\ lam' = v
    /\ UNCHANGED <<n_iter, n_knots, spline_order, penalty_matrix, opt_,
                   fitvars, ctlvars, th, kervars>>

\* gam.opt_ = 1 selects pirls_naive_ (opt_ is no constructor argument)
SetOpt(o) ==
    /\ pc = "idle" /\ NoCallInFlight /\ nfits < MaxFits /\ opt_ # o
    /\ opt_' = o
    /\ UNCHANGED <<n_iter, lam, n_knots, spline_order, penalty_matrix,
                   fitvars, ctlvars, th, kervars>>

----------------------------------------------------------------------------
(* The instance after __init__.                                            *)

Constructed ==
    /\ opt_ = 0
    /\ b_ = None /\ n_bases_ = <<>> /\ knots_ = <<>> /\ lam_ = <<>>
    /\ n_knots_ = <<>> /\ spline_order_ = <<>> /\ penalty_matrix_ = <<>>
    /\ dtypes_ = <<>>
    /\ edof_ = None /\ se_ = None /\ aic_ = None /\ aicc_ = None
    /\ cov_ = None /\ scale_ = None
    /\ acc = <<>> /\ nll = <<>> /\ diffs = <<>>
    /\ pc = "idle" /\ X = <<>> /\ it = 0 /\ stdout = <<>>
    /\ outcome = "none" /\ clock = 0 /\ nfits = 0
    /\ th = [t \in 1..NThreads |-> IdleThread]

Init ==
    /\ n_iter \in 1..MaxIter
    /\ lam \in LamChoices
    /\ n_knots \in KnotChoices
    /\ spline_order \in OrderChoices
    /\ penalty_matrix \in PenaltyChoices
    /\ Constructed
    /\ kin = <<>> /\ kout = <<>>

----------------------------------------------------------------------------
(* Prediction-time operations, statement by statement.  A call is made on  *)
(* an X with as many columns as the fitted one.  th[t].width is the number *)
(* of columns of the basis matrix the call has built for itself.           *)

PredictOps == {"predict_proba", "predict", "prediction_intervals",
               "confidence_intervals", "partial_dependence"}

\* n_bases_ as the last fit left it
FittedNBases == bases_counts(Len(knots_), knots_, spline_order_)

FitCompleted == pc = "idle" /\ outcome \in {"converged", "maxiter"}

CallFeatures(op) ==
    IF op = "confidence_intervals" THEN (-1)..Len(knots_)
    ELSE IF op = "partial_dependence" THEN {1}
    ELSE {-1}

Begin(t, op, f) ==
    /\ FitCompleted /\ th[t].pc = "idle"
    /\ f \in CallFeatures(op)
    /\ th' = [th EXCEPT ![t] = [pc |-> "bases", op |-> op, feature |-> f,
                                j |-> 0, width |-> 0, res |-> "",
                                stale |-> FALSE]]
    /\ UNCHANGED <<cfgvars, fitvars, ctlvars, kervars>>

\* one call at a time
StartCall(t, op, f) == NoCallInFlight /\ Begin(t, op, f)

\* a call started while another is in flight
StartConcurrent(t, op, f) == ~NoCallInFlight /\ Begin(t, op, f)

\* the call ends (returns or raises); the caller then takes the result
Finish(c, res) == [c EXCEPT !.pc = "ended", !.res = res]

Return(t) ==
    /\ th[t].pc = "ended"
    /\ th' = [th EXCEPT ![t] = IdleThread]
    /\ UNCHANGED <<cfgvars, fitvars, ctlvars, kervars>>

\* bases_: the two assertions, then for feature = -1 the reset of n_bases_
BasesEnter(t) ==
    LET c == th[t]
        o == c
    IN  /\ c.pc = "bases"
        /\ IF ~(c.feature < Len(n_bases_))
           THEN /\ th' = [th EXCEPT ![t] = Finish(o, "out of range")]
                /\ UNCHANGED n_bases_
           ELSE IF c.feature = -1
           THEN /\ n_bases_' = bases_reset
                /\ th' = [th EXCEPT ![t] = [o EXCEPT !.pc = "append", !.j = 1,
                                                     !.width = 1]]
           ELSE /\ th' = [th EXCEPT ![t] =
                            [o EXCEPT !.pc = "lp",
                                      !.width = IF c.feature = 0 THEN 1
                                                ELSE basis_cols(knots_[c.feature],
                                                        spline_order_[c.feature])]]
                /\ UNCHANGED n_bases_
        /\ UNCHANGED <<cfgvars, b_, knots_, lam_, n_knots_, spline_order_,
                       penalty_matrix_, dtypes_, edof_, se_, aic_, aicc_, cov_,
                       scale_, acc, nll, diffs, ctlvars, kervars>>

\* bases_: self.n_bases_.append(bases[-1].shape[1]) for column j
BasesAppend(t) ==
    LET c == th[t]
        n == basis_cols(knots_[c.j], spline_order_[c.j])
    IN  /\ c.pc = "append"
        /\ n_bases_' = Append(n_bases_, n)
        /\ th' = [th EXCEPT ![t] =
                    [c EXCEPT !.j = c.j + 1, !.width = c.width + n,
                              !.pc = IF c.j < Len(knots_) THEN "append"
                                     ELSE IF c.op \in {"predict_proba", "predict"}
                                     THEN "dot" ELSE "lp"]]
        /\ UNCHANGED <<cfgvars, b_, knots_, lam_, n_knots_, spline_order_,
                       penalty_matrix_, dtypes_, edof_, se_, aic_, aicc_, cov_,
                       scale_, acc, nll, diffs, ctlvars, kervars>>

\* log_odds_: bases.dot(self.b_)
LogOdds(t) ==
    LET c == th[t]
    IN  /\ c.pc = "dot"
        /\ th' = [th EXCEPT ![t] =
                    Finish(c, IF b_ # None /\ b_.m = c.width THEN "ok"
                              ELSE "shapes not aligned")]
        /\ UNCHANGED <<cfgvars, fitvars, ctlvars, kervars>>

\* linear_predictor_(bases=B, feature): bases.dot(b_[select_feature_(feature)])
LinearPredictor(t) ==
    LET c   == th[t]
        sel == select_feature_(n_bases_, c.feature)
        o   == [c EXCEPT !.stale = c.stale \/
                           sel # select_feature_(FittedNBases, c.feature)]
    IN  /\ c.pc = "lp"
        /\ th' = [th EXCEPT ![t] =
                    IF sel.err THEN Finish(o, "out of range")
                    ELSE IF Len(sel.idx) # c.width
                    THEN Finish(o, "shapes not aligned")
                    ELSE [o EXCEPT !.pc = "idxs"]]
        /\ UNCHANGED <<cfgvars, fitvars, ctlvars, kervars>>

\* get_intervals_ from idxs = select_feature_(feature) on; partial_dependence
\* then goes on to its next feature
Intervals(t) ==
    LET c   == th[t]
        sel == select_feature_(n_bases_, c.feature)
        o   == [c EXCEPT !.stale = c.stale \/
                           sel # select_feature_(FittedNBases, c.feature)]
    IN  /\ c.pc = "idxs"
        /\ th' = [th EXCEPT ![t] =
                    IF sel.err THEN Finish(o, "out of range")
                    ELSE IF cov_ = None \/ scale_ = None \/ edof_ = None
                    THEN Finish(o, "no fit statistics")
                    ELSE IF Len(sel.idx) # c.width
                            \/ \E i \in DOMAIN sel.idx : sel.idx[i] >= cov_.dim
                    THEN Finish(o, "shapes not aligned")
                    ELSE IF c.op = "partial_dependence" /\ c.feature < Len(knots_)
                    THEN [o EXCEPT !.pc = "bases", !.feature = c.feature + 1]
                    ELSE Finish(o, "ok")]
        /\ UNCHANGED <<cfgvars, fitvars, ctlvars, kervars>>

PredictStep(t) ==
    \/ BasesEnter(t)
    \/ BasesAppend(t)
    \/ LogOdds(t)
    \/ LinearPredictor(t)
    \/ Intervals(t)

Next ==
    \/ \E Xm \in XChoices : Fit(Xm)
    \/ Iterate
    \/ IterateNaive
    \/ LoopEnd
    \/ \E v \in LamChoices : SetLam(v)
    \/ \E o \in {0, 1} : SetOpt(o)

Spec == Init /\ [][Next]_vars

\* An instance built with the default kinds of arguments, fitted once and
\* then used for prediction, by one caller or by several at a time.
InitPredict ==
    /\ n_iter \in 1..MaxIter
    /\ lam = Scalar(6)
    /\ n_knots = Scalar(1)
    /\ spline_order = Scalar(2)
    /\ penalty_matrix = Scalar("auto")
    /\ Constructed
    /\ kin = <<>> /\ kout = <<>>

FirstFit(Xm) == nfits = 0 /\ Fit(Xm)

NextPredict ==
    \/ \E Xm \in XChoices : FirstFit(Xm)
    \/ Iterate
    \/ IterateNaive
    \/ LoopEnd
    \/ \E o \in {0, 1} : SetOpt(o)
    \/ \E t \in 1..NThreads, op \in PredictOps :
          \E f \in CallFeatures(op) : StartCall(t, op, f)
    \/ \E t \in 1..NThreads, op \in PredictOps :
          \E f \in CallFeatures(op) : StartConcurrent(t, op, f)
    \/ \E t \in 1..NThreads : PredictStep(t)
    \/ \E t \in 1..NThreads : Return(t)

SpecPredict == InitPredict /\ [][NextPredict]_vars

----------------------------------------------------------------------------
(* The pure functions on their own: the inputs are drawn in the initial    *)
(* state, the action applies the function.                                 *)

KernelIdle ==
    /\ n_iter = 1 /\ lam = Scalar(6) /\ n_knots = Scalar(1)
    /\ spline_order = Scalar(2) /\ penalty_matrix = Scalar("auto")
    /\ Constructed

SeqsUpTo(S, n) == UNION {[1..k -> S] : k \in 1..n}

\* check_dtype_
colOff  == [dtype |-> "int",   v2 |-> <<2, 4, 6>>]   \* 1, 2, 3
colHalf == [dtype |-> "float", v2 |-> <<1, 1, 3>>]   \* 0.5, 0.5, 1.5
colTies == [dtype |-> "float", v2 |-> <<0, 2, 2>>]   \* 0., 1., 1.
colText == [dtype |-> "other", v2 |-> <<0, 2, 4>>]

DtypeColumns == {colCont, colCat2, colCat3, colGap, colOff, colHalf, colTies,
                 colText}

InitDtype ==
    /\ KernelIdle
    /\ kin \in SeqsUpTo(DtypeColumns, 2)
    /\ kout = <<>>

CheckDtype ==
    /\ kout = <<>>
    /\ kout' = <<check_dtype_(kin)>>
    /\ UNCHANGED <<cfgvars, fitvars, ctlvars, th, kin>>

SpecDtype == InitDtype /\ [][CheckDtype]_vars

\* b_spline_basis
KnotVectors ==
    {[i \in DOMAIN SortedSeq(S) |-> FInt(SortedSeq(S)[i])] :
        S \in {T \in SUBSET (0..MaxKnot) : Cardinality(T) >= 2}}

Observations == {Frac(h, 2) : h \in (-2)..(2 * MaxKnot + 2)}

InitSpline ==
    /\ KernelIdle
    /\ kin \in [x : Observations, boundary_knots : KnotVectors,
                order : 1..MaxOrder]
    /\ kout = <<>>

EvalBasis ==
    /\ kout = <<>>
    /\ kout' = <<b_spline_basis(kin.x, kin.boundary_knots, kin.order)>>
    /\ UNCHANGED <<cfgvars, fitvars, ctlvars, th, kin>>

SpecSpline == InitSpline /\ [][EvalBasis]_vars

\* mask_ and weights_
ProbaGrid == {Frac(a * a, b * b) : a \in 0..MaxRoot, b \in 1..MaxRoot} \cap
             {q \in (0..(MaxRoot * MaxRoot)) \X (1..(MaxRoot * MaxRoot)) :
                q[1] <= q[2]}

InitWeights ==
    /\ KernelIdle
    /\ kin \in SeqsUpTo(ProbaGrid, MaxRows)
    /\ kout = <<>>

Mask ==
    /\ kout = <<>>
    /\ kout' = <<mask_(kin)>>
    /\ UNCHANGED <<cfgvars, fitvars, ctlvars, th, kin>>

Weights ==
    /\ Len(kout) = 1 /\ kout[1].err = ""
    /\ kout' = kout \o <<weights_(take(kin, kout[1].mask))>>
    /\ UNCHANGED <<cfgvars, fitvars, ctlvars, th, kin>>

SpecWeights == InitWeights /\ [][Mask \/ Weights]_vars

\* the singular values of [R; E.T], largest first
SingularValues ==
    (1..MaxSing) \cup {k * SqrtEpsInv : k \in 1..MaxSing}
                 \cup {k * SqrtEpsInv + 1 : k \in 1..MaxSing}

InitSvd ==
    /\ KernelIdle
    /\ kin \in {d \in SeqsUpTo(SingularValues, MaxRows) :
                  \A i \in 1..(Len(d) - 1) : d[i] >= d[i + 1]}
    /\ kout = <<>>

InvertSingular ==
    /\ kout = <<>>
    /\ kout' = <<[svd_mask |-> svd_mask(kin), Dinv |-> Dinv_diagonal(kin)]>>
    /\ UNCHANGED <<cfgvars, fitvars, ctlvars, th, kin>>

SpecSvd == InitSvd /\ [][InvertSingular]_vars

----------------------------------------------------------------------------
(* Properties of the fitted instance (specification Spec).                 *)

IsPrefix(s, t) == Len(s) <= Len(t) /\ SubSeq(t, 1, Len(s)) = s

IsContiguous(idx) == \A k \in 1..(Len(idx) - 1) : idx[k + 1] = idx[k] + 1

FeatureIdx(i) == select_feature_(n_bases_, i).idx

\* C1: select_feature_(-1) is the whole range 0 .. sum(n_bases_)-1, and the
\* ranges of the features 0 .. len(n_bases_)-1 are contiguous, pairwise
\* disjoint, laid end to end in feature order, and cover exactly that range;
\* range i starts at the sum of the counts before i and has n_bases_[i]
\* entries.
C1_SelectFeaturePartition ==
    Len(n_bases_) > 0 =>
        LET feats == 0..(Len(n_bases_) - 1)
            total == Sum(n_bases_)
        IN  /\ ~select_feature_(n_bases_, -1).err
            /\ FeatureIdx(-1) = [k \in 1..total |-> k - 1]
            /\ \A i \in feats :
                 /\ ~select_feature_(n_bases_, i).err
                 /\ IsContiguous(FeatureIdx(i))
                 /\ Len(FeatureIdx(i)) = n_bases_[i + 1]
                 /\ Len(FeatureIdx(i)) > 0 =>
                      FeatureIdx(i)[1] = Sum([k \in 1..i |-> n_bases_[k]])
            /\ \A i, j \in feats :
                 i # j => Range(FeatureIdx(i)) \cap Range(FeatureIdx(j)) = {}
            /\ UNION {Range(FeatureIdx(i)) : i \in feats} = Range(FeatureIdx(-1))

\* a fit of two features that gave the blocks 1, 3 and 3 columns
C1_Witness ==
    /\ pc = "idle" /\ outcome = "converged"
    /\ Len(n_bases_) = 3 /\ n_bases_[2] > 1 /\ n_bases_[3] > 1

\* the latest fit call got as far as assembling the penalty matrix
PenaltyAssembled ==
    pc = "loop" \/ outcome \in {"converged", "maxiter", "raised"}

ListLengths == {0} \cup {1 + Len(Xm) : Xm \in XChoices}

\* C5: once fit has assembled the penalty, lam_, penalty_matrix_ and
\* n_bases_ each have 1 + p entries (p the columns of X), P_ is
\* block-diagonal with 1 + p blocks of the sizes n_bases_, and the
\* intercept block is zero whatever lam is; the lists never grow beyond
\* 1 + p over repeated fits.
C5_PenaltyBlocks ==
    /\ Len(lam_) \in ListLengths
    /\ Len(penalty_matrix_) \in ListLengths
    /\ Len(n_bases_) \in ListLengths
    /\ PenaltyAssembled =>
         LET p      == Len(X)
             blocks == penalty_blocks(n_bases_, penalty_matrix_, lam_)
             P      == P_(n_bases_, penalty_matrix_, lam_)
         IN  /\ Len(lam_) = 1 + p
             /\ Len(penalty_matrix_) = 1 + p
             /\ Len(n_bases_) = 1 + p
             /\ Len(blocks) = 1 + p
             /\ \A k \in 1..(1 + p) :
                  /\ Len(blocks[k]) = n_bases_[k]
                  /\ \A r \in 1..n_bases_[k] : Len(blocks[k][r]) = n_bases_[k]
             /\ \A r, c \in 1..Len(blocks[1]) : blocks[1][r][c] = 0
             /\ Len(P) = Sum(n_bases_)
             /\ \A i, j \in 0..p :
                  LET si == select_start(n_bases_, i)
                      sj == select_start(n_bases_, j)
                  IN  \A a \in 1..n_bases_[i + 1], b \in 1..n_bases_[j + 1] :
                        P[si + a][sj + b] =
                            IF i = j THEN blocks[i + 1][a][b] ELSE 0
             /\ P[1][1] = 0

\* a second fit, with lam given per feature and a nonzero penalty block
C5_Witness ==
    /\ nfits = 2 /\ outcome = "converged" /\ lam.list /\ Len(X) = 2
    /\ P_(n_bases_, penalty_matrix_, lam_)[2][2] # 0

\* C6: when the loop runs out without any pass converging, exactly n_iter
\* passes were made, 'did not converge' is printed, fit returns, and b_ is
\* the result of the last pass (stamped with the latest iteration, not the
\* zero start and not an earlier value).
C6_MaxIterKeepsLast ==
    /\ pc = "loop" => it <= n_iter
    /\ outcome = "maxiter" =>
         /\ pc = "idle"
         /\ it = n_iter
         /\ stdout # <<>> /\ stdout[Len(stdout)] = "did not converge"
         /\ Len(diffs) >= n_iter
         /\ \A i \in 1..n_iter : ~diffs[Len(diffs) + 1 - i].small
         /\ n_iter >= 1 =>
              /\ b_ # None /\ b_ # zeros(Sum(n_bases_))
              /\ b_.k = clock /\ b_.k = diffs[Len(diffs)].k
              /\ b_.m = Sum(n_bases_)

\* a fit that used up two passes without converging
C6_Witness ==
    /\ outcome = "maxiter" /\ n_iter = 2 /\ it = 2 /\ b_.k = clock

\* C7: the logs acc, nll and diffs only grow: every step keeps the old
\* contents as a prefix, a completed pass (a tick of clock) adds exactly
\* one entry to each, and no other step changes them.
C7_LogsAppendOnly ==
    [][/\ IsPrefix(acc, acc') /\ IsPrefix(nll, nll') /\ IsPrefix(diffs, diffs')
       /\ clock' = clock + 1 =>
            /\ Len(acc') = Len(acc) + 1
            /\ Len(nll') = Len(nll) + 1
            /\ Len(diffs') = Len(diffs) + 1
       /\ clock' = clock => acc' = acc /\ nll' = nll /\ diffs' = diffs
       /\ Len(acc') = clock' /\ Len(nll') = clock' /\ Len(diffs') = clock'
      ]_vars

\* the second fit on the instance is past its first pass, the logs of the
\* first fit still in front
C7_Witness ==
    /\ nfits = 2 /\ it >= 1 /\ Len(acc) >= 3
    /\ Len(nll) = Len(acc) /\ Len(diffs) = Len(acc)

\* C8: whichever strategy ran, a fit that stopped on convergence leaves
\* scale_, edof_, cov_ and se_ populated.
C8_ConvergedPopulatesStats ==
    outcome = "converged" =>
        scale_ # None /\ edof_ # None /\ cov_ # None /\ se_ # None

----------------------------------------------------------------------------
(* Properties of the pure functions.                                       *)

\* the values of a column are exactly 0, 1, .., k-1 (doubled: 0, 2, ..)
ExactlyZeroToK(col) == Range(col.v2) = {2 * c : c \in 0..(NUnique(col) - 1)}

\* C3: check_dtype_ fails for every categorical column whose values are not
\* exactly 0..k-1, and accepts a categorical column only when they are.
C3_CategoricalZeroToK ==
    (kout # <<>> /\ \A i \in DOMAIN kin : kin[i].dtype \in {"int", "float"}) =>
        (kout[1].err = "" <=>
            \A i \in DOMAIN kin : IsCategorical(kin[i]) => ExactlyZeroToK(kin[i]))

\* C4: the row b_spline_basis produces sums to 1, wherever x lies.
C4_PartitionOfUnity ==
    kout # <<>> => (~kout[1].err /\ FSum(kout[1].row) = FInt(1))

\* C9: the weight of an unmasked observation squares to p (1 - p).
C9_WeightIsSqrtVariance ==
    Len(kout) = 2 =>
        LET p == take(kin, kout[1].mask)
        IN  \A i \in DOMAIN p :
              FMul(kout[2][i], kout[2][i]) = FMul(p[i], FSub(FInt(1), p[i]))

\* C10: a singular value contributes 1/d_i when it is above
\* max(d) * sqrt(EPS), and 0 when it is at or below it.
C10_RankTruncation ==
    kout # <<>> =>
        \A i \in DOMAIN kin :
            kout[1].Dinv[i] =
                IF kin[i] > kin[1] \div SqrtEpsInv THEN Frac(1, kin[i]) ELSE FInt(0)

----------------------------------------------------------------------------
(* Prediction after fit (specification SpecPredict).                       *)

\* C2: with fit completed, no prediction call, however it is interleaved
\* with others, gets from select_feature_ anything but the indices of the
\* n_bases_ that fit left (stale), and none fails with 'out of range' or
\* misaligned shapes.
C2_ConcurrentPredictionSafe ==
    \A t \in 1..NThreads :
        /\ ~th[t].stale
        /\ th[t].res \notin {"out of range", "shapes not aligned"}

----------------------------------------------------------------------------
(* The penalty of categorical features and the stored statistics           *)
(* (specification Spec).                                                   *)

\* the penalty_matrix setting that applies to feature i (1-based column of X)
PenaltySetting(i) ==
    IF penalty_matrix.list THEN penalty_matrix.v[i] ELSE penalty_matrix.v[1]

\* C11: once fit has assembled the penalty, every categorical feature whose
\* penalty_matrix setting is 'auto' or None (given as one value or in a
\* per-feature list) has as its block the identity of size n_bases scaled
\* by the feature's lam.
C11_CategoricalRidge ==
    PenaltyAssembled =>
        LET blocks == penalty_blocks(n_bases_, penalty_matrix_, lam_)
        IN  \A i \in 1..Len(X) :
              (dtypes_[i] = "int" /\ PenaltySetting(i) \in {"auto", PNone}) =>
                  /\ Len(blocks[i + 1]) = n_bases_[i + 1]
                  /\ \A r, c \in 1..n_bases_[i + 1] :
                        blocks[i + 1][r][c] = IF r = c THEN lam_[i + 1] ELSE 0

StatsUnset == cov_ = None /\ se_ = None /\ edof_ = None /\ scale_ = None

\* all four were stored by the pass that produced b_
StatsOfCurrent ==
    /\ cov_ # None /\ se_ # None /\ edof_ # None /\ scale_ # None
    /\ cov_.k = b_.k /\ se_.k = b_.k /\ edof_.k = b_.k /\ scale_.k = b_.k
    /\ cov_.dim = b_.m /\ se_.dim = b_.m

\* C12: whenever a fit call has returned, cov_, se_, edof_ and scale_ are
\* either all unset or were all computed in the pass that produced the
\* current b_, and cov_ is len(b_) x len(b_).
C12_StatsMatchCoefficients ==
    FitCompleted => (StatsUnset \/ StatsOfCurrent)

====
